---- MODULE Spec2Model ----
(***************************************************************************)
(* Model of src/main.py: the FastAPI front-end "Nova Transcribe".          *)
(*                                                                         *)
(* State: the module-global MODEL, the files of OUTPUT_DIR, the wall       *)
(* clock, the asyncio event loop (which coroutine is running), one record  *)
(* per POST /api/transcribe request in flight (its form inputs, its        *)
(* position in transcribe_api and what it has done so far), the document   *)
(* names answered so far, and the response sent last.                      *)
(*                                                                         *)
(* File names are sequences of one-character strings, so that              *)
(* os.path.splitext, str.lower and the f-strings that build input_path and *)
(* docx_name are computed as the code computes them.  Upload file names    *)
(* are plain names (no path separator) or empty.                           *)
(***************************************************************************)
EXTENDS Integers, Sequences, FiniteSets, TLC

VARIABLES
    MODEL,      \* the global MODEL: the name the loaded model was loaded under
    hasName,    \* whether the objects load_model returns have a 'name' attribute
    fs,         \* the names of the files in OUTPUT_DIR
    now,        \* the wall clock, in whole seconds
    loop,       \* the request whose coroutine the event loop is running, or Free
    req,        \* per request: its form inputs and its position in transcribe_api
    returned,   \* the document names answered as docx_file so far
    resp        \* the response sent last, with what its handler was asked and did

vars == <<MODEL, hasName, fs, now, loop, req, returned, resp>>

(* ------------------------------ bounds -------------------------------- *)

\* number of POST /api/transcribe requests in a behaviour
MaxRequests == 2

\* last second the wall clock reaches in a behaviour
MaxSecond == 1

(* ----------------------------- constants ------------------------------ *)

\* line 18, with WHISPER_MODEL unset
DEFAULT_MODEL == "base"

\* names whisper.load_model knows; any other name raises
KnownModels == {"base", "tiny"}

\* model_size values a client sends (an absent field is DEFAULT_MODEL)
ModelSizes == KnownModels \cup {"bogus"}

\* upload file names: none, and a name with an upper-case extension
Filenames == {<< >>, <<"a", ".", "W">>}

\* values of uuid.uuid4().hex[:8]
Uids == {"u1", "u2"}

\* a name no handler ever writes
MissingName == <<"z">>

Requests == 1..MaxRequests

\* the event loop is idle
Free == 0

\* Python None / the empty str of `x or default`
None == << >>

(* ------------------------- pure helper functions ---------------------- *)

\* str.rfind(ch) + 1: the last position of ch in p, 0 when absent
RFind(p, ch) ==
    LET hits == {i \in 1..Len(p) : p[i] = ch}
    IN  IF hits = {} THEN 0 ELSE CHOOSE i \in hits : \A j \in hits : j <= i

\* os.path.splitext: split at the last dot of the last component, unless
\* that component has only leading dots before it
splitext(p) ==
    LET sepIndex == RFind(p, "/")
        dotIndex == RFind(p, ".")
        hasStem  == \E i \in (sepIndex + 1)..(dotIndex - 1) : p[i] # "."
    IN  IF dotIndex > sepIndex /\ hasStem
        THEN <<SubSeq(p, 1, dotIndex - 1), SubSeq(p, dotIndex, Len(p))>>
        ELSE <<p, << >> >>

\* str.lower on one character
LowerChar(c) ==
    CASE c = "W" -> "w"
      [] c = "M" -> "m"
      [] c = "A" -> "a"
      [] OTHER   -> c

\* str.lower
lower(p) == [i \in 1..Len(p) |-> LowerChar(p[i])]

\* x or d
Or(x, d) == IF x = None THEN d ELSE x

\* line 43
base_name(filename) == splitext(Or(filename, <<"audio">>))[1]

\* line 44
ext(filename) == Or(lower(splitext(Or(filename, None))[2]), <<".wav">>)

\* line 46, relative to OUTPUT_DIR
input_path(filename, uid) == base_name(filename) \o <<"_", uid>> \o ext(filename)

Digits == <<"0", "1", "2", "3", "4", "5", "6", "7", "8", "9">>

\* line 82: strftime("%Y%m%d_%H%M%S") of the clock, which counts whole
\* seconds; the seconds field is two digits
strftime(t) == <<Digits[((t \div 10) % 10) + 1], Digits[(t % 10) + 1]>>

\* line 83
docx_name(filename, t) == base_name(filename) \o <<"_">> \o strftime(t) \o <<".docx">>

\* line 51: getattr(MODEL, 'name', DEFAULT_MODEL)
current_model_name(m, named) == IF named THEN m ELSE DEFAULT_MODEL

\* the reload test with == for !=
NeedsReloadInverted(model_size, m, named) ==
    model_size # "" /\ model_size = current_model_name(m, named)

\* line 52: the reload condition
NeedsReload(model_size, m, named) ==
    model_size # "" /\ model_size # current_model_name(m, named)

\* whisper.load_model: an unknown name raises; a known one may fail too
LoadOutcomes(name) ==
    IF name \in KnownModels THEN {"ok", "raise"} ELSE {"raise"}

\* the global rebound before load_model has returned
ModelAfterLoadEager(m, model_size, o) == model_size

\* lines 53-56: MODEL is assigned only when load_model returns
ModelAfterLoad(m, model_size, o) == IF o = "ok" THEN model_size ELSE m

\* results MODEL.transcribe can return: text, language, last segment's end
Results ==
    { [text |-> "hi", language |-> "en", end |-> 1] }

\* lines 74-79: duration from the last segment's end
duration(result) == result.end

\* the metadata paragraph naming DEFAULT_MODEL instead of model_size
DocumentDefaultModel(filename, model_size, result) ==
    [ source   |-> Or(filename, <<"Uploaded file">>),
      model    |-> DEFAULT_MODEL,
      language |-> result.language,
      duration |-> duration(result) ]

\* lines 86-98: the heading paragraph of the document built for a request
Document(filename, model_size, result) ==
    [ source   |-> Or(filename, <<"Uploaded file">>),
      model    |-> model_size,
      language |-> result.language,
      duration |-> duration(result) ]

\* open(path, "wb") / doc.save(path): the file at path exists afterwards
WriteFile(f, path) == f \cup {path}

\* the existence test made on OUTPUT_DIR instead of the file
existsDirectory(f, path) == TRUE

\* line 128: os.path.exists
exists(f, path) == path \in f

\* transcribe_api with load_model awaited in a thread pool as well
YieldPointsAfterCheck == {"read", "transcribe"}

\* the points of transcribe_api where the coroutine suspends (line 48)
YieldPoints == {"read"}

\* the event loop after request r reaches label l
LoopAfter(r, l) == IF l \in YieldPoints THEN Free ELSE r

\* request r may run: the loop is idle, or r is the running coroutine
CanRun(r) == loop \in {Free, r}

(* ------------------------------- state -------------------------------- *)

NoResult == [text |-> "", language |-> "", end |-> 0]

NoDocument == [source |-> None, model |-> "", language |-> "", duration |-> 0]

\* a request not yet made
NoRequest ==
    [ pc |-> "idle", filename |-> None, model_size |-> "", input |-> None,
      checked |-> "", call |-> "none", used |-> "", result |-> NoResult ]

\* a request that has been answered
Answered == [NoRequest EXCEPT !.pc = "done"]

NoResponse == [kind |-> "none", status |-> 0]

\* the response of transcribe_api to request r, with what the request asked
\* and what the handler did for it
Response(r, status, body, saved, doc) ==
    [ kind |-> "transcribe", status |-> status, body |-> body,
      filename |-> req[r].filename, model_size |-> req[r].model_size,
      call |-> req[r].call, used |-> req[r].used,
      saved |-> saved, doc |-> doc ]

\* lines 18-22: the default model is loaded, OUTPUT_DIR exists
Init ==
    /\ MODEL = DEFAULT_MODEL
    /\ hasName \in BOOLEAN
    /\ fs = {}
    /\ now = 0
    /\ loop = Free
    /\ req = [r \in Requests |-> NoRequest]
    /\ returned = {}
    /\ resp = NoResponse

(* ------------------------------ actions ------------------------------- *)

\* the wall clock advances
Tick ==
    /\ now < MaxSecond
    /\ now' = now + 1
    /\ UNCHANGED <<MODEL, hasName, fs, loop, req, returned, resp>>

\* health reporting the model loaded now
healthCurrent ==
    /\ loop = Free
    /\ resp' = [kind |-> "health", status |-> 200,
                body |-> [ok |-> TRUE, model |-> MODEL]]
    /\ UNCHANGED <<MODEL, hasName, fs, now, loop, req, returned>>

\* GET /health (lines 24-26)
health ==
    /\ loop = Free
    /\ resp' = [kind |-> "health", status |-> 200,
                body |-> [ok |-> TRUE, model |-> DEFAULT_MODEL]]
    /\ UNCHANGED <<MODEL, hasName, fs, now, loop, req, returned>>

\* download_file with the existence test negated
download_fileNegated(fname) ==
    /\ loop = Free
    /\ resp' = IF exists(fs, fname)
               THEN [kind |-> "download", status |-> 404, fname |-> fname,
                     body |-> [error |-> "File not found"]]
               ELSE [kind |-> "download", status |-> 200, fname |-> fname,
                     body |-> [file |-> fname]]
    /\ UNCHANGED <<MODEL, hasName, fs, now, loop, req, returned>>

\* GET /download/{fname} (lines 125-130)
download_file(fname) ==
    /\ loop = Free
    /\ resp' = IF ~exists(fs, fname)
               THEN [kind |-> "download", status |-> 404, fname |-> fname,
                     body |-> [error |-> "File not found"]]
               ELSE [kind |-> "download", status |-> 200, fname |-> fname,
                     body |-> [file |-> fname]]
    /\ UNCHANGED <<MODEL, hasName, fs, now, loop, req, returned>>

\* POST /api/transcribe, lines 40-48: name and open the upload's file, then
\* await the upload's bytes
Begin(r, filename, model_size, uid) ==
    /\ req[r].pc = "idle"
    /\ \A q \in Requests : q < r => req[q].pc # "idle"
    /\ loop = Free
    /\ LET path == input_path(filename, uid)
       IN  /\ fs' = WriteFile(fs, path)
           /\ req' = [req EXCEPT ![r] = [@ EXCEPT !.pc = "read",
                                                   !.filename = filename,
                                                   !.model_size = model_size,
                                                   !.input = path]]
    /\ loop' = LoopAfter(r, "read")
    /\ UNCHANGED <<MODEL, hasName, now, returned, resp>>

\* lines 48-56: write the upload, reload the model if different
Check(r) ==
    /\ req[r].pc = "read"
    /\ CanRun(r)
    /\ fs' = WriteFile(fs, req[r].input)
    /\ IF NeedsReload(req[r].model_size, MODEL, hasName)
       THEN \E o \in LoadOutcomes(req[r].model_size) :
              /\ MODEL' = ModelAfterLoad(MODEL, req[r].model_size, o)
              /\ IF o = "ok"
                 THEN /\ req' = [req EXCEPT ![r] = [@ EXCEPT !.pc = "transcribe",
                                                              !.checked = MODEL']]
                      /\ loop' = LoopAfter(r, "transcribe")
                      /\ UNCHANGED resp
                 ELSE /\ req' = [req EXCEPT ![r] = Answered]
                      /\ loop' = Free
                      /\ resp' = Response(r, 400, [error |-> "Failed to load model"],
                                          None, NoDocument)
       ELSE /\ MODEL' = MODEL
            /\ req' = [req EXCEPT ![r] = [@ EXCEPT !.pc = "transcribe",
                                                    !.checked = MODEL]]
            /\ loop' = LoopAfter(r, "transcribe")
            /\ UNCHANGED resp
    /\ UNCHANGED <<hasName, now, returned>>

\* Transcribe with the exception swallowed: the handler goes on to the
\* document with an empty result
TranscribeSwallowed(r) ==
    /\ req[r].pc = "transcribe"
    /\ CanRun(r)
    /\ \/ \E result \in Results :
            req' = [req EXCEPT ![r] = [@ EXCEPT !.pc = "docx", !.call = "ok",
                                                 !.used = MODEL, !.result = result]]
       \/ req' = [req EXCEPT ![r] = [@ EXCEPT !.pc = "docx", !.call = "raised",
                                               !.used = MODEL]]
    /\ loop' = LoopAfter(r, "docx")
    /\ UNCHANGED <<MODEL, hasName, fs, now, returned, resp>>

\* lines 58-79: MODEL.transcribe on the saved upload
Transcribe(r) ==
    /\ req[r].pc = "transcribe"
    /\ CanRun(r)
    /\ \/ \E result \in Results :
            /\ req' = [req EXCEPT ![r] = [@ EXCEPT !.pc = "docx",
                                                    !.call = "ok",
                                                    !.used = MODEL,
                                                    !.result = result]]
            /\ loop' = LoopAfter(r, "docx")
            /\ UNCHANGED resp
       \/ /\ req' = [req EXCEPT ![r] = Answered]
          /\ loop' = Free
          /\ resp' = [Response(r, 500, [error |-> "Transcription failed"],
                               None, NoDocument)
                        EXCEPT !.call = "raised", !.used = MODEL]
    /\ UNCHANGED <<MODEL, hasName, fs, now, returned>>

\* lines 81-123: build and save the document, answer
BuildDocx(r) ==
    /\ req[r].pc = "docx"
    /\ CanRun(r)
    /\ LET name == docx_name(req[r].filename, now)
           doc  == Document(req[r].filename, req[r].model_size, req[r].result)
       IN  /\ fs' = WriteFile(fs, name)
           /\ returned' = returned \cup {name}
           /\ resp' = Response(r, 200,
                               [ ok |-> TRUE,
                                 text |-> req[r].result.text,
                                 docx_file |-> name,
                                 model |-> req[r].model_size,
                                 language |-> req[r].result.language,
                                 duration_seconds |-> duration(req[r].result),
                                 filename |-> req[r].filename ],
                               name, doc)
    /\ req' = [req EXCEPT ![r] = Answered]
    /\ loop' = Free
    /\ UNCHANGED <<MODEL, hasName, now>>

\* names a client asks to download: the documents answered so far, a name
\* that never exists, and a name that exists once a document gets it
DownloadNames == returned \cup {MissingName, docx_name(None, 0)}

Next ==
    \/ Tick
    \/ health
    \/ \E fname \in DownloadNames : download_file(fname)
    \/ \E r \in Requests, filename \in Filenames, model_size \in ModelSizes, uid \in Uids :
          Begin(r, filename, model_size, uid)
    \/ \E r \in Requests : Check(r)
    \/ \E r \in Requests : Transcribe(r)
    \/ \E r \in Requests : BuildDocx(r)

Spec == Init /\ [][Next]_vars

\* the handlers' steps are run by the event loop once they can run
FairSpec ==
    /\ Spec
    /\ \A r \in Requests :
          WF_vars(Check(r)) /\ WF_vars(Transcribe(r)) /\ WF_vars(BuildDocx(r))

(* ------------------------------- claims ------------------------------- *)

\* the last response is transcribe_api's
IsTranscribe == resp.kind = "transcribe"

\* the last response is a success body of transcribe_api
IsOk == IsTranscribe /\ resp.status = 200

\* C1: a request whose model_size names an unknown model is answered 400
\* with an error field, never gets past the model check (MODEL.transcribe is
\* not called for it) and saves no document.
C1_UnknownModelRejected ==
    /\ \A r \in Requests :
          req[r].model_size \notin KnownModels \cup {""} => req[r].pc = "read"
    /\ IsTranscribe /\ resp.model_size \notin KnownModels =>
          /\ resp.status = 400
          /\ "error" \in DOMAIN resp.body
          /\ resp.call = "none"
          /\ resp.saved = None

\* C1 witness: an unknown model is refused while a reloaded model is in place
C1_Witness ==
    /\ IsTranscribe /\ resp.model_size = "bogus" /\ resp.status = 400
    /\ MODEL = "tiny"

\* C2: every success response was transcribed by the model named by its
\* model_size, which is the response's 'model' field.
C2_TranscribedByRequestedModel ==
    IsOk => resp.used = resp.model_size /\ resp.body.model = resp.model_size

\* C3: a document name answered as docx_file names a file from then on, and
\* every GET /download of it answers 200 with that file.
C3_DocumentStaysDownloadable ==
    [][ /\ returned' \subseteq fs'
        /\ \A f \in returned :
              download_file(f) => resp'.status = 200 /\ resp'.body = [file |-> f]
      ]_vars

\* C3 witness: an answered document is served after two transcriptions
C3_Witness ==
    /\ resp.kind = "download" /\ resp.status = 200 /\ resp.fname \in returned
    /\ \A r \in Requests : req[r].pc = "done"

\* C4: a request is answered 400, 500 or 200; 400 exactly when
\* MODEL.transcribe was not called, 200 exactly when it returned, and when it
\* raised the answer is 500 with an error field and no document saved.
C4_ThreeOutcomes ==
    IsTranscribe =>
        /\ resp.status \in {200, 400, 500}
        /\ resp.status = 400 <=> resp.call = "none"
        /\ resp.status = 200 <=> resp.call = "ok"
        /\ resp.status = 200 => resp.body.ok
        /\ resp.call = "raised" =>
              /\ resp.status = 500
              /\ "error" \in DOMAIN resp.body
              /\ resp.saved = None

\* C4 witness: MODEL.transcribe raised and the request was answered 500
C4_Witness == IsTranscribe /\ resp.call = "raised" /\ resp.status = 500

\* C5: GET /download/{fname} answers 404 with an error field exactly when
\* fname names no file of the output directory and the file otherwise, and
\* changes neither the files nor MODEL.
C5_DownloadFoundOrNot ==
    [][ \A f \in DownloadNames :
          download_file(f) =>
              /\ resp'.status = 404 <=> f \notin fs
              /\ resp'.status = 404 => "error" \in DOMAIN resp'.body
              /\ f \in fs => resp'.status = 200 /\ resp'.body = [file |-> f]
              /\ fs' = fs
              /\ MODEL' = MODEL
      ]_vars

\* C5 witness: a missing name is answered 404 beside existing files
C5_Witness ==
    /\ resp.kind = "download" /\ resp.status = 404 /\ resp.fname \notin fs
    /\ returned # {}

\* C6 as stated: the document of a success response records the upload's
\* filename and the model name, which is the response's 'model' field.
C6_DocumentRecordsFilename ==
    IsOk =>
        /\ resp.doc.source = resp.filename
        /\ resp.doc.model = resp.model_size
        /\ resp.doc.model = resp.body.model

\* C6 amended: the document records the upload's filename, or
\* "Uploaded file" when the upload has none, and the model name, which is the
\* response's 'model' field.
C6_DocumentRecordsSource ==
    IsOk =>
        /\ resp.doc.source =
              IF resp.filename = None THEN <<"Uploaded file">> ELSE resp.filename
        /\ resp.doc.model = resp.model_size
        /\ resp.doc.model = resp.body.model

\* C6 witness: a document for an upload without a filename, by a reloaded model
C6_Witness == IsOk /\ resp.filename = None /\ resp.model_size = "tiny"

\* two requests asking for different loadable models are suspended at line 48
ConcurrentDifferentSizes ==
    \E r, q \in Requests :
        /\ req[r].pc = "read" /\ req[q].pc = "read"
        /\ req[r].model_size \in KnownModels /\ req[q].model_size \in KnownModels
        /\ req[r].model_size # req[q].model_size

\* MODEL was reassigned between a request's check/reload and its transcribe
\* call
RaceState ==
    \E r \in Requests :
        \/ req[r].pc = "transcribe" /\ MODEL # req[r].checked
        \/ req[r].pc = "docx" /\ req[r].used # req[r].checked

C8_DocumentWrittenOnce ==
    [][ \A r \in Requests :
          BuildDocx(r) => docx_name(req[r].filename, now) \notin returned
      ]_vars

\* C9: a request answered 400 leaves MODEL as it was, and the file of its
\* upload is in the output directory, where files stay.
C9_FailedLoadKeepsModel ==
    [][ /\ fs \subseteq fs'
        /\ \A r \in Requests :
              Check(r) /\ req'[r].pc = "done" =>
                  /\ resp'.status = 400
                  /\ MODEL' = MODEL
                  /\ req[r].input \in fs'
      ]_vars

\* C9 witness: a load failed while a reloaded model was in place
C9_Witness ==
    /\ IsTranscribe /\ resp.status = 400 /\ resp.model_size = "bogus"
    /\ MODEL = "tiny" /\ hasName
    /\ \E uid \in Uids : input_path(resp.filename, uid) \in fs

\* C10: GET /health answers {ok: true, model: DEFAULT_MODEL} whatever model
\* is loaded.
C10_HealthReportsDefault ==
    resp.kind = "health" =>
        resp.status = 200 /\ resp.body = [ok |-> TRUE, model |-> DEFAULT_MODEL]

\* C10 witness: health answered while another model is loaded
C10_Witness == resp.kind = "health" /\ MODEL # DEFAULT_MODEL

====
